---- MODULE Spec2Model ----
(***************************************************************************)
(* Model of the type/serde mapping engine (class TypeMapper).              *)
(*                                                                         *)
(* A TypeMapper instance holds three collection objects by reference       *)
(* (serdePackagesUsed, localImportsByPath, scalarEnumsUsed) and the flag   *)
(* usedFixableSerde by value.  The collection objects live in `heap`, an   *)
(* instance holds their addresses.  JavaScript Sets and Maps iterate in    *)
(* insertion order, so a Set is a duplicate-free sequence here.            *)
(* A thrown exception leaves every assignment made before the throw in     *)
(* place: each mapping operator returns the state it reached together      *)
(* with the error (or "none") and the returned string.                     *)
(***************************************************************************)
EXTENDS Integers, Sequences, FiniteSets, TLC

VARIABLES
  mappers,         \* sequence of TypeMapper instances
  heap,            \* address -> collection object (Set or Map)
  primaryTypeMap,  \* the primary type table given to the constructor
  forceFixable,    \* the force-fixable predicate given to the constructor
  pc,              \* the caller's position: "idle" or "returned"
  call,            \* the call that has just returned (or NoCall)
  result,          \* what that call returned or threw
  before,          \* the accumulations of every instance when the call began
  calls            \* number of mapping calls made so far

vars ==
  <<mappers, heap, primaryTypeMap, forceFixable, pc, call, result, before,
    calls>>

\* ---------------------------------------------------------------------
\* Bounds of the model
\* ---------------------------------------------------------------------
MaxDepth == 2
MaxFields == 2
MaxMappers == 3
MaxCalls == 2

\* ---------------------------------------------------------------------
\* Program constants
\* ---------------------------------------------------------------------
UNDEFINED == "<undefined>"
NO_NAME_PROVIDED == "<no name provided>"
BEET_PACKAGE == "@metaplex-foundation/beet"
BEET_SOLANA_PACKAGE == "@metaplex-foundation/beet-solana"
SOLANA_WEB3_PACKAGE == "@solana/web3.js"
BEET_EXPORT_NAME == "beet"
BEET_SOLANA_EXPORT_NAME == "beetSolana"
SOLANA_WEB3_EXPORT_NAME == "web3"

\* Thrown errors, named by the assertion that throws them.
NoError == "none"
UnsupportedType == "UnsupportedType"
UnknownType == "UnknownType"
MissingName == "MissingName"
ConflictingEnumDefinition == "ConflictingEnumDefinition"
UnknownSerdePackage == "UnknownSerdePackage"
NotYetSupported == "NotYetSupported"
TypeError == "TypeError"

\* ---------------------------------------------------------------------
\* JavaScript collections
\* ---------------------------------------------------------------------
Range(s) == {s[i] : i \in DOMAIN s}

\* Set.prototype.add: appends unless already a member.
SetAdd(s, x) == IF x \in Range(s) THEN s ELSE Append(s, x)

\* Map.prototype.set on a Map kept as a function.
MapSet(m, k, v) == [x \in DOMAIN m \cup {k} |-> IF x = k THEN v ELSE m[x]]

EmptyMap == [x \in {} |-> UNDEFINED]

\* ---------------------------------------------------------------------
\* Schema type expressions (IdlType)
\* ---------------------------------------------------------------------
Prim(key) == [tag |-> "primitive", key |-> key]
Defined(n) == [tag |-> "defined", defined |-> n]
Option(e) == [tag |-> "option", option |-> e]
Vec(e) == [tag |-> "vec", vec |-> e]
Array(e, n) == [tag |-> "array", array |-> <<e, n>>]
Enum(vs) == [tag |-> "enum", kind |-> "enum", variants |-> vs]

isPrimitive(ty) == ty.tag = "primitive"
isIdlTypeOption(ty) == ty.tag = "option"
isIdlTypeVec(ty) == ty.tag = "vec"
isIdlTypeArray(ty) == ty.tag = "array"
isIdlTypeDefined(ty) == ty.tag = "defined"
isIdlTypeEnum(ty) == ty.tag = "enum"

\* ---------------------------------------------------------------------
\* Constructor inputs
\* ---------------------------------------------------------------------
Path(dir, base, ext) == [dir |-> dir, base |-> base, ext |-> ext]

accountTypesPaths == ("Foo" :> Path(<<"a">>, "Types", ".ts"))

customTypesPaths ==
  ("Foo" :> Path(<<"b">>, "Foo", ".ts")) @@
  ("Bar" :> Path(<<"a", ".types">>, "Bar", ".ts")) @@
  ("Al" :> Path(<<"b">>, "Al", ".ts"))

typeAliases == ("Al" :> "u8") @@ ("Ax" :> "foo")

Entry(ts, pack, sourcePack, beet, isFixable) ==
  [ts |-> ts, pack |-> pack, sourcePack |-> sourcePack, beet |-> beet,
   isFixable |-> isFixable]

defaultPrimaryTypeMap ==
  ("u8" :> Entry("number", UNDEFINED, BEET_PACKAGE, "u8", FALSE)) @@
  ("string" :> Entry("string", UNDEFINED, BEET_PACKAGE, "utf8String", TRUE)) @@
  ("publicKey" :> Entry("PublicKey", SOLANA_WEB3_PACKAGE, BEET_SOLANA_PACKAGE,
                        "publicKey", FALSE)) @@
  ("UniformFixedSizeArray" :> Entry("Array", UNDEFINED, BEET_PACKAGE,
                                    "uniformFixedSizeArray", FALSE))

\* A table passed to the constructor instead of the default: its fixed-array
\* entry is flagged fixable.
overridePrimaryTypeMap ==
  ("UniformFixedSizeArray" :> Entry("Array", UNDEFINED, BEET_PACKAGE,
                                    "uniformFixedSizeArray", TRUE)) @@
  defaultPrimaryTypeMap


\* Force-fixable predicates: the default, and one that fires on references
\* to the types known to be fixable.
FORCE_FIXABLE_NEVER == "never"
FORCE_FIXABLE_DEFINED == "defined"
FixableTypes == {"Foo", "Al", "Baz"}

\* A table passed to the constructor without a fixed-array entry.
scalarPrimaryTypeMap ==
  [key \in DOMAIN defaultPrimaryTypeMap \ {"UniformFixedSizeArray"} |->
     defaultPrimaryTypeMap[key]]

\* The (table, predicate) pairs a mapper is constructed with.
Configs ==
  {<<defaultPrimaryTypeMap, FORCE_FIXABLE_NEVER>>,
   <<scalarPrimaryTypeMap, FORCE_FIXABLE_NEVER>>,
   <<defaultPrimaryTypeMap, FORCE_FIXABLE_DEFINED>>,
   <<overridePrimaryTypeMap, FORCE_FIXABLE_NEVER>>}

ApplyForceFixable(f, ty) ==
  /\ f = FORCE_FIXABLE_DEFINED
  /\ isIdlTypeDefined(ty)
  /\ ty.defined \in FixableTypes

\* ---------------------------------------------------------------------
\* Collaborators (serdes, render-type)
\* ---------------------------------------------------------------------
isKnownSerdePackage(pack) ==
  pack \in {BEET_PACKAGE, BEET_SOLANA_PACKAGE, SOLANA_WEB3_PACKAGE}

serdePackageExportName(pack) ==
  CASE pack = BEET_PACKAGE -> BEET_EXPORT_NAME
    [] pack = BEET_SOLANA_PACKAGE -> BEET_SOLANA_EXPORT_NAME
    [] pack = SOLANA_WEB3_PACKAGE -> SOLANA_WEB3_EXPORT_NAME
    [] OTHER -> UNDEFINED

\* First character in lower case, over the type names of the model.
LowerFirst(n) ==
  CASE n = "Foo" -> "foo"
    [] n = "Bar" -> "bar"
    [] n = "Baz" -> "baz"
    [] n = "Al" -> "al"
    [] n = "Ax" -> "ax"
    [] OTHER -> n

beetVarNameFromTypeName(n) == LowerFirst(n) \o "Beet"

\* ---------------------------------------------------------------------
\* Results of a call on `this` (the accumulations of one instance)
\* ---------------------------------------------------------------------
Ok(this, val) == [this |-> this, err |-> NoError, val |-> val]
Throw(this, e) == [this |-> this, err |-> e, val |-> UNDEFINED]

FreshUsages ==
  [serdePackagesUsed |-> <<>>, localImportsByPath |-> <<>>,
   scalarEnumsUsed |-> EmptyMap, usedFixableSerde |-> FALSE]

\* ---------------------------------------------------------------------
\* Accumulation helpers
\* ---------------------------------------------------------------------
\* Faulty variant: assigns the entry's flag instead of or-ing it in.
updateUsedFixableSerde_assign(this, ty) ==
  [this EXCEPT !.usedFixableSerde = ty.isFixable]

updateUsedFixableSerde(this, ty) ==
  [this EXCEPT !.usedFixableSerde = this.usedFixableSerde \/ ty.isFixable]

addSerdePackage(this, pack) ==
  [this EXCEPT !.serdePackagesUsed = SetAdd(this.serdePackagesUsed, pack)]

VariantNames(ty) == [i \in DOMAIN ty.variants |-> ty.variants[i].name]

\* Faulty variant: the last registration wins.
updateScalarEnumsUsed_lastWins(this, name, ty) ==
  Ok([this EXCEPT !.scalarEnumsUsed = MapSet(@, name, VariantNames(ty))],
     UNDEFINED)

updateScalarEnumsUsed(this, name, ty) ==
  LET variants == VariantNames(ty)
  IN IF name \in DOMAIN this.scalarEnumsUsed
       THEN IF variants = this.scalarEnumsUsed[name]
              THEN Ok(this, UNDEFINED)
              ELSE Throw(this, ConflictingEnumDefinition)
       ELSE Ok([this EXCEPT !.scalarEnumsUsed = MapSet(@, name, variants)],
               UNDEFINED)

\* getOrCreate(this.localImportsByPath, path, new Set()).add(symbol)
addLocalImport(this, path, symbol) ==
  LET li == this.localImportsByPath
      at == {i \in DOMAIN li : li[i].path = path}
  IN [this EXCEPT !.localImportsByPath =
        IF at = {}
          THEN Append(li, [path |-> path, imports |-> <<symbol>>])
          ELSE [i \in DOMAIN li |->
                  IF i \in at
                    THEN [li[i] EXCEPT !.imports = SetAdd(@, symbol)]
                    ELSE li[i]]]

\* ---------------------------------------------------------------------
\* Primary type table lookup
\* ---------------------------------------------------------------------
\* The table is a plain object: a key it does not own is still found when
\* Object.prototype has a property of that name.
ObjectPrototypeKeys ==
  {"constructor", "hasOwnProperty", "isPrototypeOf", "propertyIsEnumerable",
   "toLocaleString", "toString", "valueOf", "__proto__", "__defineGetter__",
   "__defineSetter__", "__lookupGetter__", "__lookupSetter__"}

InheritedProperty == Entry(UNDEFINED, UNDEFINED, UNDEFINED, UNDEFINED, FALSE)

tableHas(key) == key \in DOMAIN primaryTypeMap \/ key \in ObjectPrototypeKeys

\* this.primaryTypeMap[key]: the table's own entry, a property inherited from
\* the prototype, or undefined.
tableGet(key) ==
  IF key \in DOMAIN primaryTypeMap THEN primaryTypeMap[key]
  ELSE IF key \in ObjectPrototypeKeys THEN InheritedProperty
  ELSE UNDEFINED

\* assert(this.primaryTypeMap[serde] != null): an expression that is not a
\* string is no key of the table.
assertBeetSupported(serde) == isPrimitive(serde) /\ tableHas(serde.key)

\* Faulty variant: the custom-type table is consulted first.
definedTypesImport_customFirst(ty) ==
  IF ty.defined \in DOMAIN customTypesPaths
    THEN [found |-> TRUE, path |-> customTypesPaths[ty.defined]]
  ELSE IF ty.defined \in DOMAIN accountTypesPaths
    THEN [found |-> TRUE, path |-> accountTypesPaths[ty.defined]]
  ELSE [found |-> FALSE, path |-> UNDEFINED]

definedTypesImport(ty) ==
  IF ty.defined \in DOMAIN accountTypesPaths
    THEN [found |-> TRUE, path |-> accountTypesPaths[ty.defined]]
  ELSE IF ty.defined \in DOMAIN customTypesPaths
    THEN [found |-> TRUE, path |-> customTypesPaths[ty.defined]]
  ELSE [found |-> FALSE, path |-> UNDEFINED]

\* ---------------------------------------------------------------------
\* Map TypeScript type
\* ---------------------------------------------------------------------
RECURSIVE map(_, _, _)
RECURSIVE mapSerde(_, _, _)

\* Faulty variant: records the serde source package instead of the native
\* type's package.
mapPrimitiveType_sourcePack(this, ty, name) ==
  IF ~assertBeetSupported(Prim(ty)) THEN Throw(this, UnsupportedType)
  ELSE
    LET mapped == tableGet(ty)
        typescriptType == IF mapped.ts = UNDEFINED THEN "any" ELSE mapped.ts
    IN IF mapped.pack # UNDEFINED
         THEN Ok(addSerdePackage(this, mapped.sourcePack),
                 serdePackageExportName(mapped.pack) \o "."
                   \o typescriptType)
         ELSE Ok(this, typescriptType)

mapPrimitiveType(this, ty, name) ==
  IF ~assertBeetSupported(Prim(ty)) THEN Throw(this, UnsupportedType)
  ELSE
    LET mapped == tableGet(ty)
        typescriptType == IF mapped.ts = UNDEFINED THEN "any" ELSE mapped.ts
    IN IF mapped.pack # UNDEFINED
         THEN IF ~isKnownSerdePackage(mapped.pack)
                THEN Throw(this, UnknownSerdePackage)
                ELSE Ok(addSerdePackage(this, mapped.pack),
                        serdePackageExportName(mapped.pack) \o "."
                          \o typescriptType)
         ELSE Ok(this, typescriptType)

mapOptionType(this, ty, name) ==
  LET inner == map(this, ty.option, name)
  IN IF inner.err # NoError THEN inner
     ELSE Ok(addSerdePackage(inner.this, BEET_PACKAGE),
             serdePackageExportName(BEET_PACKAGE) \o ".COption<"
               \o inner.val \o ">")

mapVecType(this, ty, name) ==
  LET inner == map(this, ty.vec, name)
  IN IF inner.err # NoError THEN inner
     ELSE Ok(inner.this, inner.val \o "[]")

mapArrayType(this, ty, name) ==
  LET inner == map(this, ty.array[1], name)
      size == ty.array[2]
  IN IF inner.err # NoError THEN inner
     ELSE Ok(inner.this,
             inner.val \o "[] /* size: " \o ToString(size) \o " */")

mapDefinedType(this, ty) ==
  LET fullFileDir == definedTypesImport(ty)
  IN IF ~fullFileDir.found THEN Throw(this, UnknownType)
     ELSE Ok(addLocalImport(this, fullFileDir.path, ty.defined), ty.defined)

mapEnumType(this, ty, name) ==
  IF name = NO_NAME_PROVIDED THEN Throw(this, MissingName)
  ELSE
    LET updated == updateScalarEnumsUsed(this, name, ty)
    IN IF updated.err # NoError THEN updated
       ELSE Ok(updated.this, name)

\* Faulty variant: a Defined name found in a path table is mapped as a
\* Defined type before its alias is looked up.
map_pathsFirst(this, ty, name) ==
  CASE isPrimitive(ty) -> mapPrimitiveType(this, ty.key, name)
    [] isIdlTypeOption(ty) -> mapOptionType(this, ty, name)
    [] isIdlTypeVec(ty) -> mapVecType(this, ty, name)
    [] isIdlTypeArray(ty) -> mapArrayType(this, ty, name)
    [] isIdlTypeDefined(ty) ->
         IF definedTypesImport(ty).found
              \/ ty.defined \notin DOMAIN typeAliases
           THEN mapDefinedType(this, ty)
           ELSE mapPrimitiveType(this, typeAliases[ty.defined], name)
    [] isIdlTypeEnum(ty) -> mapEnumType(this, ty, name)
    [] OTHER -> Throw(this, NotYetSupported)

map(this, ty, name) ==
  CASE isPrimitive(ty) -> mapPrimitiveType(this, ty.key, name)
    [] isIdlTypeOption(ty) -> mapOptionType(this, ty, name)
    [] isIdlTypeVec(ty) -> mapVecType(this, ty, name)
    [] isIdlTypeArray(ty) -> mapArrayType(this, ty, name)
    [] isIdlTypeDefined(ty) ->
         IF ty.defined \in DOMAIN typeAliases
           THEN mapPrimitiveType(this, typeAliases[ty.defined], name)
           ELSE mapDefinedType(this, ty)
    [] isIdlTypeEnum(ty) -> mapEnumType(this, ty, name)
    [] OTHER -> Throw(this, NotYetSupported)

\* ---------------------------------------------------------------------
\* Map serde
\* ---------------------------------------------------------------------
mapStringSerde(this, ty) ==
  LET mapped == tableGet(ty)
  IN IF ~isKnownSerdePackage(mapped.sourcePack)
       THEN Throw(this, UnknownSerdePackage)
       ELSE Ok(updateUsedFixableSerde(
                 addSerdePackage(this, mapped.sourcePack), mapped),
               serdePackageExportName(mapped.sourcePack) \o "."
                 \o mapped.beet)

mapPrimitiveSerde(this, ty, name) ==
  IF ~assertBeetSupported(Prim(ty)) THEN Throw(this, UnsupportedType)
  ELSE IF ty = "string" THEN mapStringSerde(this, ty)
  ELSE
    LET mapped == tableGet(ty)
    IN IF ~isKnownSerdePackage(mapped.sourcePack)
         THEN Throw(this, UnknownSerdePackage)
         ELSE Ok(updateUsedFixableSerde(
                   addSerdePackage(this, mapped.sourcePack), mapped),
                 serdePackageExportName(mapped.sourcePack) \o "." \o ty)

\* Faulty variant: records the option package and the flag before the inner
\* expression is mapped.
mapOptionSerde_eager(this, ty, name) ==
  LET marked == [addSerdePackage(this, BEET_PACKAGE)
                   EXCEPT !.usedFixableSerde = TRUE]
      inner == mapSerde(marked, ty.option, name)
  IN IF inner.err # NoError THEN inner
     ELSE Ok(inner.this,
             serdePackageExportName(BEET_PACKAGE) \o ".coption("
               \o inner.val \o ")")

\* Faulty variant: leaves the flag as the inner mapping left it.
mapOptionSerde_inherit(this, ty, name) ==
  LET inner == mapSerde(this, ty.option, name)
  IN IF inner.err # NoError THEN inner
     ELSE Ok(addSerdePackage(inner.this, BEET_PACKAGE),
             serdePackageExportName(BEET_PACKAGE) \o ".coption("
               \o inner.val \o ")")

mapOptionSerde(this, ty, name) ==
  LET inner == mapSerde(this, ty.option, name)
  IN IF inner.err # NoError THEN inner
     ELSE Ok([addSerdePackage(inner.this, BEET_PACKAGE)
                EXCEPT !.usedFixableSerde = TRUE],
             serdePackageExportName(BEET_PACKAGE) \o ".coption("
               \o inner.val \o ")")

mapVecSerde(this, ty, name) ==
  LET inner == mapSerde(this, ty.vec, name)
  IN IF inner.err # NoError THEN inner
     ELSE Ok([addSerdePackage(inner.this, BEET_PACKAGE)
                EXCEPT !.usedFixableSerde = TRUE],
             serdePackageExportName(BEET_PACKAGE) \o ".array("
               \o inner.val \o ")")

\* Faulty variant: forces the flag as for a vector.
mapArraySerde_forced(this, ty, name) ==
  LET inner == mapSerde(this, ty.array[1], name)
      mapped == tableGet("UniformFixedSizeArray")
  IN IF inner.err # NoError THEN inner
     ELSE IF ~tableHas("UniformFixedSizeArray")
       THEN Throw(inner.this, TypeError)
     ELSE Ok([addSerdePackage(inner.this, mapped.sourcePack)
                EXCEPT !.usedFixableSerde = TRUE],
             serdePackageExportName(mapped.sourcePack) \o "." \o mapped.beet
               \o "(" \o inner.val \o ", " \o ToString(ty.array[2]) \o ")")

\* Reading sourcePack of an undefined table entry throws TypeError, after the
\* inner expression has been mapped.
mapArraySerde(this, ty, name) ==
  LET inner == mapSerde(this, ty.array[1], name)
      size == ty.array[2]
      mapped == tableGet("UniformFixedSizeArray")
      arrayPackage == mapped.sourcePack
  IN IF inner.err # NoError THEN inner
     ELSE IF ~tableHas("UniformFixedSizeArray")
       THEN Throw(inner.this, TypeError)
     ELSE IF ~isKnownSerdePackage(arrayPackage)
       THEN Throw(inner.this, UnknownSerdePackage)
     ELSE Ok(updateUsedFixableSerde(
               addSerdePackage(inner.this, arrayPackage), mapped),
             serdePackageExportName(arrayPackage) \o "." \o mapped.beet
               \o "(" \o inner.val \o ", " \o ToString(size) \o ")")

mapDefinedSerde(this, ty) ==
  LET fullFileDir == definedTypesImport(ty)
      varName == beetVarNameFromTypeName(ty.defined)
  IN IF ~fullFileDir.found THEN Throw(this, UnknownType)
     ELSE Ok(addLocalImport(this, fullFileDir.path, varName), varName)

\* Faulty variant: the name is not asserted.
mapEnumSerde_anonymous(this, ty, name) ==
  LET added == addSerdePackage(this, BEET_PACKAGE)
      updated == updateScalarEnumsUsed(added, name, ty)
  IN IF updated.err # NoError THEN updated
     ELSE Ok(updated.this,
             serdePackageExportName(BEET_PACKAGE) \o ".fixedScalarEnum("
               \o name \o ")")

mapEnumSerde(this, ty, name) ==
  IF name = NO_NAME_PROVIDED THEN Throw(this, MissingName)
  ELSE
    LET added == addSerdePackage(this, BEET_PACKAGE)
        updated == updateScalarEnumsUsed(added, name, ty)
    IN IF updated.err # NoError THEN updated
       ELSE Ok(updated.this,
               serdePackageExportName(BEET_PACKAGE) \o ".fixedScalarEnum("
                 \o name \o ")")

mapSerde(this, ty, name) ==
  LET forced ==
        IF ApplyForceFixable(forceFixable, ty)
          THEN [this EXCEPT !.usedFixableSerde = TRUE]
          ELSE this
  IN CASE isPrimitive(ty) -> mapPrimitiveSerde(forced, ty.key, name)
       [] isIdlTypeOption(ty) -> mapOptionSerde(forced, ty, name)
       [] isIdlTypeVec(ty) -> mapVecSerde(forced, ty, name)
       [] isIdlTypeArray(ty) -> mapArraySerde(forced, ty, name)
       [] isIdlTypeEnum(ty) -> mapEnumSerde(forced, ty, name)
       [] isIdlTypeDefined(ty) ->
            IF ty.defined \in DOMAIN typeAliases
              THEN mapPrimitiveSerde(forced, typeAliases[ty.defined], name)
              ELSE mapDefinedSerde(forced, ty)
       [] OTHER -> Throw(forced, NotYetSupported)

mapSerdeField(this, field) ==
  LET ty == mapSerde(this, field.type, field.name)
  IN IF ty.err # NoError THEN ty
     ELSE Ok(ty.this, [name |-> field.name, type |-> ty.val])

\* fields.map(this.mapSerdeField): field by field, stopping at the first throw;
\* `done` holds the pairs mapped so far.
RECURSIVE mapSerdeFieldsFrom(_, _, _)
mapSerdeFieldsFrom(this, fields, done) ==
  IF fields = <<>> THEN Ok(this, done)
  ELSE
    LET first == mapSerdeField(this, Head(fields))
    IN IF first.err # NoError THEN first
       ELSE mapSerdeFieldsFrom(first.this, Tail(fields),
                               Append(done, first.val))

mapSerdeFields(this, fields) == mapSerdeFieldsFrom(this, fields, <<>>)

\* ---------------------------------------------------------------------
\* Imports generator
\* ---------------------------------------------------------------------
RECURSIVE Join(_, _)
Join(parts, sep) ==
  IF parts = <<>> THEN ""
  ELSE IF Len(parts) = 1 THEN parts[1]
  ELSE parts[1] \o sep \o Join(Tail(parts), sep)

RECURSIVE CommonPrefixLen(_, _)
CommonPrefixLen(a, b) ==
  IF a = <<>> \/ b = <<>> \/ Head(a) # Head(b) THEN 0
  ELSE 1 + CommonPrefixLen(Tail(a), Tail(b))

\* path.relative(fileDir, originPath) for absolute paths, as segments.
pathRelative(fileDir, originPath) ==
  LET k == CommonPrefixLen(fileDir, originPath.dir)
      ups == [i \in 1..(Len(fileDir) - k) |-> ".."]
      down == SubSeq(originPath.dir, k + 1, Len(originPath.dir))
  IN [dir |-> ups \o down, base |-> originPath.base, ext |-> originPath.ext]

\* s.startsWith(prefix) for a one-character prefix.
StartsWith(s, prefix) == Len(s) >= 1 /\ SubSeq(s, 1, 1) = prefix

withoutTsExtension(p) == IF p.ext = ".ts" THEN [p EXCEPT !.ext = ""] ELSE p

PathString(p) == Join(p.dir \o <<p.base \o p.ext>>, "/")

\* forcePackages is [given |-> FALSE] or [given |-> TRUE, packs |-> <<...>>].
RECURSIVE SetAddAll(_, _)
SetAddAll(s, xs) ==
  IF xs = <<>> THEN s ELSE SetAddAll(SetAdd(s, Head(xs)), Tail(xs))

importsForSerdePackages(this, forcePackages) ==
  LET packagesToInclude ==
        IF ~forcePackages.given THEN this.serdePackagesUsed
        ELSE SetAddAll(this.serdePackagesUsed, forcePackages.packs)
  IN [i \in DOMAIN packagesToInclude |->
        "import * as " \o serdePackageExportName(packagesToInclude[i])
          \o " from '" \o packagesToInclude[i] \o "';"]

importsForLocalPackages(this, fileDir) ==
  LET li == this.localImportsByPath
  IN [i \in DOMAIN li |->
        LET rel == pathRelative(fileDir, li[i].path)
            relPath == IF ~StartsWith(PathString(rel), ".")
                         THEN [rel EXCEPT !.dir = <<".">> \o @]
                         ELSE rel
            importPath == PathString(withoutTsExtension(relPath))
        IN "import { " \o Join(li[i].imports, ", ") \o " }  from '"
             \o importPath \o "';"]

importsUsed(this, fileDir, forcePackages) ==
  Ok(this, importsForSerdePackages(this, forcePackages)
             \o importsForLocalPackages(this, fileDir))

clearUsages(this) == Ok(FreshUsages, UNDEFINED)

\* ---------------------------------------------------------------------
\* Instances and the heap
\* ---------------------------------------------------------------------
\* new TypeMapper(...): three new collection objects, flag false.
NewTypeMapper(h) ==
  [mapper |-> [serdePackagesUsed |-> Len(h) + 1,
               localImportsByPath |-> Len(h) + 2,
               scalarEnumsUsed |-> Len(h) + 3,
               usedFixableSerde |-> FALSE],
   heap |-> h \o <<(<<>>), (<<>>), EmptyMap>>]

\* Faulty variant: hands the copy the collection objects of the original, as
\* is done with the lookup tables.
clone_sharing(h, m) ==
  [mapper |-> [m EXCEPT !.usedFixableSerde = FALSE], heap |-> h]

clone(h, m) == NewTypeMapper(h)

\* The accumulations of instance m, read through its references.
Load(h, m) ==
  [serdePackagesUsed |-> h[m.serdePackagesUsed],
   localImportsByPath |-> h[m.localImportsByPath],
   scalarEnumsUsed |-> h[m.scalarEnumsUsed],
   usedFixableSerde |-> m.usedFixableSerde]

\* The collection objects of m after a call that left them as in `this`.
StoreHeap(h, m, this) ==
  [a \in DOMAIN h |->
     IF a = m.serdePackagesUsed THEN this.serdePackagesUsed
     ELSE IF a = m.localImportsByPath THEN this.localImportsByPath
     ELSE IF a = m.scalarEnumsUsed THEN this.scalarEnumsUsed
     ELSE h[a]]

Usages == [i \in DOMAIN mappers |-> Load(heap, mappers[i])]

NoCall == [op |-> "none"]
NoResult == [err |-> NoError, val |-> UNDEFINED]

\* ---------------------------------------------------------------------
\* Inputs
\* ---------------------------------------------------------------------
PrimitiveKeys == {"u8", "string", "publicKey", "UniformFixedSizeArray", "foo", "toString"}
DefinedNames == {"Foo", "Bar", "Baz", "Al", "Ax"}
RedGreen == <<[name |-> "Red"], [name |-> "Green"]>>
RedBlue == <<[name |-> "Red"], [name |-> "Blue"]>>
VariantLists == {RedGreen, RedBlue}
ArraySizes == {32}
Names == {NO_NAME_PROVIDED, "Color"}

Leaves ==
  {Prim(k) : k \in PrimitiveKeys} \cup {Defined(n) : n \in DefinedNames}
    \cup {Enum(vs) : vs \in VariantLists}

Wrapped(S) ==
  {Option(e) : e \in S} \cup {Vec(e) : e \in S}
    \cup {Array(e, n) : e \in S, n \in ArraySizes}

\* The leaves that are nested more than one level deep.
NestedLeaves == {Prim("u8"), Prim("foo"), Defined("Foo"), Enum(RedGreen)}

RECURSIVE Nested(_)
Nested(d) ==
  IF d = 0 THEN NestedLeaves ELSE NestedLeaves \cup Wrapped(Nested(d - 1))

\* Every leaf, every leaf under one wrapper, and the nested leaves under up
\* to MaxDepth wrappers.
IdlTypes == Leaves \cup Wrapped(Leaves) \cup Wrapped(Nested(MaxDepth - 1))

RECURSIVE HasEnum(_)
HasEnum(ty) ==
  CASE isIdlTypeEnum(ty) -> TRUE
    [] isIdlTypeOption(ty) -> HasEnum(ty.option)
    [] isIdlTypeVec(ty) -> HasEnum(ty.vec)
    [] isIdlTypeArray(ty) -> HasEnum(ty.array[1])
    [] OTHER -> FALSE

\* The arguments of map and mapSerde.  The name is read only where an enum is
\* mapped, so the call without a name is made for the types holding an enum.
MapArgs ==
  {a \in IdlTypes \X Names : a[2] = NO_NAME_PROVIDED => HasEnum(a[1])}

IdlFields ==
  {[name |-> "amount", type |-> Prim("u8")],
   [name |-> "label", type |-> Vec(Prim("string"))],
   [name |-> "Color", type |-> Enum(RedGreen)],
   [name |-> "bad", type |-> Prim("foo")]}

RECURSIVE SeqsUpTo(_, _)
SeqsUpTo(S, n) ==
  IF n = 0 THEN {<<>>}
  ELSE LET shorter == SeqsUpTo(S, n - 1)
       IN shorter \cup {Append(s, x) : s \in shorter, x \in S}

FieldLists == SeqsUpTo(IdlFields, MaxFields)

FileDirs == {<<"a">>, <<"out", "generated">>}
ForcePackages ==
  {[given |-> FALSE], [given |-> TRUE, packs |-> <<SOLANA_WEB3_PACKAGE>>]}

\* ---------------------------------------------------------------------
\* Actions
\* ---------------------------------------------------------------------
Init ==
  /\ mappers = <<NewTypeMapper(<<>>).mapper>>
  /\ heap = NewTypeMapper(<<>>).heap
  /\ \E c \in Configs : primaryTypeMap = c[1] /\ forceFixable = c[2]
  /\ pc = "idle"
  /\ call = NoCall
  /\ result = NoResult
  /\ before = <<>>
  /\ calls = 0

\* The call `c` on instance i ran to `r` (returned or threw).
Finish(i, c, r) ==
  /\ heap' = StoreHeap(heap, mappers[i], r.this)
  /\ mappers' = [mappers EXCEPT ![i].usedFixableSerde = r.this.usedFixableSerde]
  /\ pc' = "returned"
  /\ call' = c
  /\ result' = [err |-> r.err, val |-> r.val]
  /\ before' = Usages
  /\ UNCHANGED <<primaryTypeMap, forceFixable>>

Map(i, ty, name) ==
  /\ pc = "idle"
  /\ calls < MaxCalls
  /\ calls' = calls + 1
  /\ Finish(i, [op |-> "map", self |-> i, ty |-> ty, name |-> name],
            map(Load(heap, mappers[i]), ty, name))

MapSerde(i, ty, name) ==
  /\ pc = "idle"
  /\ calls < MaxCalls
  /\ calls' = calls + 1
  /\ Finish(i, [op |-> "mapSerde", self |-> i, ty |-> ty, name |-> name],
            mapSerde(Load(heap, mappers[i]), ty, name))

MapSerdeFields(i, fields) ==
  /\ pc = "idle"
  /\ calls < MaxCalls
  /\ calls' = calls + 1
  /\ Finish(i, [op |-> "mapSerdeFields", self |-> i, fields |-> fields],
            mapSerdeFields(Load(heap, mappers[i]), fields))

MapSerdeField(i, field) ==
  /\ pc = "idle"
  /\ calls < MaxCalls
  /\ calls' = calls + 1
  /\ Finish(i, [op |-> "mapSerdeField", self |-> i, field |-> field],
            mapSerdeField(Load(heap, mappers[i]), field))

ImportsUsed(i, fileDir, forcePackages) ==
  /\ pc = "idle"
  /\ UNCHANGED calls
  /\ Finish(i, [op |-> "importsUsed", self |-> i, fileDir |-> fileDir,
                forcePackages |-> forcePackages],
            importsUsed(Load(heap, mappers[i]), fileDir, forcePackages))

ClearUsages(i) ==
  /\ pc = "idle"
  /\ UNCHANGED calls
  /\ Finish(i, [op |-> "clearUsages", self |-> i],
            clearUsages(Load(heap, mappers[i])))

AssertBeetSupported(i, serde) ==
  /\ pc = "idle"
  /\ UNCHANGED calls
  /\ Finish(i, [op |-> "assertBeetSupported", self |-> i, ty |-> serde],
            IF assertBeetSupported(serde)
              THEN Ok(Load(heap, mappers[i]), UNDEFINED)
              ELSE Throw(Load(heap, mappers[i]), UnsupportedType))

Clone(i) ==
  /\ pc = "idle"
  /\ Len(mappers) < MaxMappers
  /\ LET made == clone(heap, mappers[i])
     IN /\ mappers' = Append(mappers, made.mapper)
        /\ heap' = made.heap
  /\ pc' = "returned"
  /\ call' = [op |-> "clone", self |-> i]
  /\ result' = NoResult
  /\ before' = Usages
  /\ UNCHANGED <<primaryTypeMap, forceFixable, calls>>

\* The caller takes the returned value (or catches the error) and goes on.
Continue ==
  /\ pc = "returned"
  /\ pc' = "idle"
  /\ call' = NoCall
  /\ result' = NoResult
  /\ before' = <<>>
  /\ UNCHANGED <<mappers, heap, primaryTypeMap, forceFixable, calls>>

Next ==
  \/ \E a \in MapArgs : Map(1, a[1], a[2])
  \/ \E a \in MapArgs : MapSerde(1, a[1], a[2])
  \/ \E field \in IdlFields : MapSerdeField(1, field)
  \/ \E fields \in FieldLists : MapSerdeFields(1, fields)
  \/ \E d \in FileDirs, f \in ForcePackages : ImportsUsed(1, d, f)
  \/ \E ty \in Leaves : AssertBeetSupported(1, ty)
  \/ ClearUsages(1)
  \/ Continue

Spec == Init /\ [][Next]_vars

\* Several instances made by clone, each called with a few arguments.
CloneArgs ==
  {<<Prim("publicKey"), "Color">>, <<Defined("Foo"), "Color">>,
   <<Option(Enum(RedGreen)), "Color">>}

NextClones ==
  \/ \E i \in DOMAIN mappers : Clone(i)
  \/ \E i \in DOMAIN mappers, a \in CloneArgs : Map(i, a[1], a[2])
  \/ \E i \in DOMAIN mappers, a \in CloneArgs : MapSerde(i, a[1], a[2])
  \/ \E i \in DOMAIN mappers : ClearUsages(i)
  \/ Continue

CloneSpec == Init /\ [][NextClones]_vars

\* ---------------------------------------------------------------------
\* Properties
\* ---------------------------------------------------------------------
Returned(ops) == pc = "returned" /\ call.op \in ops
Pre == before[call.self]
Post == Usages[call.self]
MappingOps == {"map", "mapSerde"}

\* The leaf under the wrappers of an expression.
RECURSIVE LeafOf(_)
LeafOf(ty) ==
  CASE isIdlTypeOption(ty) -> LeafOf(ty.option)
    [] isIdlTypeVec(ty) -> LeafOf(ty.vec)
    [] isIdlTypeArray(ty) -> LeafOf(ty.array[1])
    [] OTHER -> ty

\* C1: once usedFixableSerde is true it stays true across map, mapSerde,
\* mapSerdeFields and importsUsed calls, failing ones included; a call that
\* finds it true and leaves it false is clearUsages.
C1_FixableStaysTrue ==
  (pc = "returned" /\ Pre.usedFixableSerde /\ call.op # "clearUsages")
    => Post.usedFixableSerde

\* A mapSerde call that threw on a mapper whose flag was already true: the
\* flag is still true.
C1_Witness ==
  /\ Returned({"mapSerde"})
  /\ result.err # NoError
  /\ Pre.usedFixableSerde
  /\ Post.usedFixableSerde

\* C2: a call on one instance changes none of the four accumulations of any
\* other instance (the original or another clone).
C2_ClonesIndependent ==
  pc = "returned" =>
    \A j \in DOMAIN before : j # call.self \/ call.op = "clone"
                               => Usages[j] = before[j]

\* A call on the first clone added a package; the original, holding another
\* package, and the second clone, holding none, are as they were.
C2_Witness ==
  /\ Returned(MappingOps)
  /\ Len(mappers) = 3
  /\ call.self = 2
  /\ Post.serdePackagesUsed # Pre.serdePackagesUsed
  /\ Usages[1].serdePackagesUsed # <<>>
  /\ Usages[1].serdePackagesUsed # Post.serdePackagesUsed
  /\ Usages[3] = FreshUsages

\* The serde of a fixed array enclosing the expression cannot be built: the
\* table has no fixed-array entry to read.
RECURSIVE HasArray(_)
HasArray(ty) ==
  CASE isIdlTypeArray(ty) -> TRUE
    [] isIdlTypeOption(ty) -> HasArray(ty.option)
    [] isIdlTypeVec(ty) -> HasArray(ty.vec)
    [] OTHER -> FALSE

ArrayEntryMissing ==
  /\ call.op = "mapSerde"
  /\ HasArray(call.ty)
  /\ ~tableHas("UniformFixedSizeArray")

\* C3: mapping an enum under a name already in the registry throws
\* ConflictingEnumDefinition when the variant names differ from the registered
\* ones and succeeds when they are the same (the call then returns, unless an
\* enclosing fixed array finds no entry in the table); every call but
\* clearUsages leaves each registered name with the list first registered.
C3_FirstRegistrationKept ==
  pc = "returned" =>
    /\ (call.op \in MappingOps /\ HasEnum(call.ty)
          /\ call.name \in DOMAIN Pre.scalarEnumsUsed)
         => IF VariantNames(LeafOf(call.ty)) = Pre.scalarEnumsUsed[call.name]
              THEN result.err = IF ArrayEntryMissing THEN TypeError
                                ELSE NoError
              ELSE result.err = ConflictingEnumDefinition
    /\ call.op # "clearUsages"
         => \A n \in DOMAIN Pre.scalarEnumsUsed :
              /\ n \in DOMAIN Post.scalarEnumsUsed
              /\ Post.scalarEnumsUsed[n] = Pre.scalarEnumsUsed[n]

\* An enum registered in type mode (no package was recorded) is mapped again in
\* serde mode with other variants: the call throws and the registry is as it
\* was.
C3_Witness ==
  /\ Returned({"mapSerde"})
  /\ isIdlTypeEnum(call.ty)
  /\ "Color" \in DOMAIN Pre.scalarEnumsUsed
  /\ Pre.serdePackagesUsed = <<>>
  /\ Pre.scalarEnumsUsed["Color"] = <<"Red", "Green">>
  /\ VariantNames(call.ty) = <<"Red", "Blue">>
  /\ result.err = ConflictingEnumDefinition
  /\ Post.scalarEnumsUsed["Color"] = <<"Red", "Green">>

\* The packages a table entry records.
RecordedPackages(e) == {e.pack, e.sourcePack} \ {UNDEFINED}

OnFreshMapper(op) ==
  /\ Returned({op})
  /\ isPrimitive(call.ty)
  /\ call.ty.key \in DOMAIN primaryTypeMap
  /\ Pre = FreshUsages

\* C4 as stated: for a key of the table, map and mapSerde on a fresh mapper
\* succeed and after either call a package the table records for the key is in
\* the used-package set.
C4_RecordedPackageUsed ==
  \A op \in MappingOps :
    OnFreshMapper(op) =>
      /\ result.err = NoError
      /\ \E p \in RecordedPackages(primaryTypeMap[call.ty.key]) :
           p \in Range(Post.serdePackagesUsed)

\* C4 amended: both calls succeed; mapSerde records the entry's source package;
\* map records the entry's native-type package when it names one and records
\* nothing when it names none.
C4_PackageUsedPerMode ==
  /\ OnFreshMapper("mapSerde") =>
       /\ result.err = NoError
       /\ primaryTypeMap[call.ty.key].sourcePack
            \in Range(Post.serdePackagesUsed)
  /\ OnFreshMapper("map") =>
       /\ result.err = NoError
       /\ IF primaryTypeMap[call.ty.key].pack # UNDEFINED
            THEN Post.serdePackagesUsed = <<primaryTypeMap[call.ty.key].pack>>
            ELSE Post.serdePackagesUsed = <<>>

\* map of publicKey on a fresh mapper recorded the web3 package, and only it.
C4_Witness ==
  /\ OnFreshMapper("map")
  /\ call.ty = Prim("publicKey")
  /\ result.val = "web3.PublicKey"
  /\ Post.serdePackagesUsed = <<SOLANA_WEB3_PACKAGE>>

RECURSIVE HasOptionOrVec(_)
HasOptionOrVec(ty) ==
  CASE isIdlTypeOption(ty) \/ isIdlTypeVec(ty) -> TRUE
    [] isIdlTypeArray(ty) -> HasOptionOrVec(ty.array[1])
    [] OTHER -> FALSE

\* C5: a successful mapSerde of an expression holding an Option or a Vector
\* node, at any depth, leaves usedFixableSerde true.
C5_OptionVecFixable ==
  (Returned({"mapSerde"}) /\ result.err = NoError /\ HasOptionOrVec(call.ty))
    => Post.usedFixableSerde

\* An Option of a fixed-size primitive nested in a fixed array, mapped with the
\* flag false and no forcing, set the flag.
C5_Witness ==
  /\ Returned({"mapSerde"})
  /\ call.ty = Array(Option(Prim("u8")), 32)
  /\ forceFixable = FORCE_FIXABLE_NEVER
  /\ result.err = NoError
  /\ ~primaryTypeMap["UniformFixedSizeArray"].isFixable
  /\ ~Pre.usedFixableSerde
  /\ Post.usedFixableSerde

\* C6: a successful mapSerde of a fixed array, begun with the flag false and a
\* predicate that never fires, leaves the flag true exactly when the
\* fixed-array entry is flagged fixable or mapping the inner expression set
\* the flag; the result is the entry's combinator applied to the inner serde
\* expression and the count.  With the default entry and inner u8 the flag
\* stays false.
C6_FixedArrayInherits ==
  (/\ Returned({"mapSerde"})
   /\ isIdlTypeArray(call.ty)
   /\ forceFixable = FORCE_FIXABLE_NEVER
   /\ ~Pre.usedFixableSerde
   /\ result.err = NoError)
    => LET inner == mapSerde(Pre, call.ty.array[1], call.name)
           entry == primaryTypeMap["UniformFixedSizeArray"]
       IN /\ Post.usedFixableSerde
               = (entry.isFixable \/ inner.this.usedFixableSerde)
          /\ result.val
               = "beet." \o entry.beet \o "(" \o inner.val \o ", "
                   \o ToString(call.ty.array[2]) \o ")"
          /\ (call.ty.array[1] = Prim("u8") /\ ~entry.isFixable)
               => /\ ~Post.usedFixableSerde
                  /\ result.val = "beet.uniformFixedSizeArray(beet.u8, 32)"

C6_Witness ==
  /\ Returned({"mapSerde"})
  /\ call.ty = Array(Prim("u8"), 32)
  /\ forceFixable = FORCE_FIXABLE_NEVER
  /\ ~Pre.usedFixableSerde
  /\ result.err = NoError
  /\ ~Post.usedFixableSerde
  /\ result.val = "beet.uniformFixedSizeArray(beet.u8, 32)"

\* A Defined reference without alias, mapped directly.
OnUnaliased ==
  /\ Returned(MappingOps)
  /\ isIdlTypeDefined(call.ty)
  /\ call.ty.defined \notin DOMAIN typeAliases

InPathTable(n) == n \in DOMAIN accountTypesPaths \cup DOMAIN customTypesPaths

ResolvedPath(n) ==
  IF n \in DOMAIN accountTypesPaths THEN accountTypesPaths[n]
  ELSE customTypesPaths[n]

\* symbol is imported from path, and path has one entry.
Imported(this, path, symbol) ==
  LET li == this.localImportsByPath
      at == {i \in DOMAIN li : li[i].path = path}
  IN /\ Cardinality(at) = 1
     /\ \A i \in at : symbol \in Range(li[i].imports)

\* What C7 says but for the flag.
DefinedImported ==
  OnUnaliased =>
    IF InPathTable(call.ty.defined)
      THEN /\ result.err = NoError
           /\ result.val = IF call.op = "map" THEN call.ty.defined
                           ELSE beetVarNameFromTypeName(call.ty.defined)
           /\ Imported(Post, ResolvedPath(call.ty.defined), result.val)
      ELSE result.err = UnknownType

\* C7 as stated: a Defined name without alias found in a path table is
\* returned (map) or its serde variable name is (mapSerde), and recorded under
\* the resolved path, the account table's when both hold it; a name in neither
\* table throws UnknownType; neither call changes usedFixableSerde.
C7_DefinedImportedFlagKept ==
  /\ DefinedImported
  /\ (OnUnaliased /\ InPathTable(call.ty.defined))
       => Post.usedFixableSerde = Pre.usedFixableSerde

\* C7 amended: as stated, but mapSerde sets usedFixableSerde when the
\* force-fixable predicate fires on the reference, also when the call then
\* throws; otherwise the flag is as it was.
C7_DefinedImportedFlagForced ==
  /\ DefinedImported
  /\ OnUnaliased
       => Post.usedFixableSerde
            = (Pre.usedFixableSerde
                 \/ (call.op = "mapSerde"
                       /\ ApplyForceFixable(forceFixable, call.ty)))

\* Foo, imported in type mode before, is mapped in serde mode: both symbols are
\* under the account table's path.
C7_Witness ==
  /\ Returned({"mapSerde"})
  /\ call.ty = Defined("Foo")
  /\ Pre.localImportsByPath
       = <<[path |-> accountTypesPaths["Foo"], imports |-> <<"Foo">>]>>
  /\ result.val = "fooBeet"
  /\ Post.localImportsByPath
       = <<[path |-> accountTypesPaths["Foo"],
            imports |-> <<"Foo", "fooBeet">>]>>
  /\ Post.usedFixableSerde = Pre.usedFixableSerde

\* A Defined reference with an alias, mapped directly, and the same call on
\* the aliased primitive.
OnAliased ==
  /\ Returned(MappingOps)
  /\ isIdlTypeDefined(call.ty)
  /\ call.ty.defined \in DOMAIN typeAliases

OnPrimitive ==
  IF call.op = "map"
    THEN map(Pre, Prim(typeAliases[call.ty.defined]), call.name)
    ELSE mapSerde(Pre, Prim(typeAliases[call.ty.defined]), call.name)

\* What C8 says but for the flag.
AliasAsPrimitive ==
  OnAliased =>
    /\ result.err = OnPrimitive.err
    /\ result.val = OnPrimitive.val
    /\ Post.serdePackagesUsed = OnPrimitive.this.serdePackagesUsed
    /\ Post.localImportsByPath = OnPrimitive.this.localImportsByPath
    /\ Post.scalarEnumsUsed = OnPrimitive.this.scalarEnumsUsed
    /\ Post.localImportsByPath = Pre.localImportsByPath
    /\ result.err # UnknownType

\* C8 as stated: map and mapSerde of an aliased Defined name return what the
\* same call on the aliased primitive returns and change the mapper as it
\* does; no local import is recorded and UnknownType is not thrown.
C8_AliasSameAsPrimitive ==
  /\ AliasAsPrimitive
  /\ OnAliased => Post.usedFixableSerde = OnPrimitive.this.usedFixableSerde

\* C8 amended: as stated for the returned string, the error, the packages, the
\* local imports and the enum registry, and for the flag after map; after
\* mapSerde the flags agree when the force-fixable predicate says the same of
\* the reference and of the primitive, the predicate being applied to the
\* reference.
C8_AliasSameButForcing ==
  /\ AliasAsPrimitive
  /\ OnAliased =>
       LET onRef == call.op = "mapSerde"
                      /\ ApplyForceFixable(forceFixable, call.ty)
           onPrim == call.op = "mapSerde"
                       /\ ApplyForceFixable(
                            forceFixable, Prim(typeAliases[call.ty.defined]))
       IN /\ onRef = onPrim
               => Post.usedFixableSerde = OnPrimitive.this.usedFixableSerde
          /\ Post.usedFixableSerde
               => (OnPrimitive.this.usedFixableSerde \/ onRef)
          /\ OnPrimitive.this.usedFixableSerde
               => (Post.usedFixableSerde \/ onPrim)

\* Al, an alias of u8 that is also in the custom-type table, mapped in type
\* mode: the primitive's type, and no import.
C8_Witness ==
  /\ Returned({"map"})
  /\ call.ty = Defined("Al")
  /\ "Al" \in DOMAIN customTypesPaths
  /\ result.val = "number"
  /\ Post = Pre

\* The primitive key an expression's leaf stands for, through an alias too.
LeafKey(ty) ==
  LET leaf == LeafOf(ty)
  IN IF isPrimitive(leaf) THEN leaf.key
     ELSE IF isIdlTypeDefined(leaf) /\ leaf.defined \in DOMAIN typeAliases
       THEN typeAliases[leaf.defined]
     ELSE UNDEFINED

\* C9: a primitive key absent from the primary type table makes map, mapSerde
\* and assertBeetSupported throw UnsupportedType, also when it is reached
\* through an alias or under Option, Vector or FixedArray.
C9_AbsentKeyUnsupported ==
  /\ (Returned(MappingOps) /\ LeafKey(call.ty) # UNDEFINED
        /\ LeafKey(call.ty) \notin DOMAIN primaryTypeMap)
       => result.err = UnsupportedType
  /\ (Returned({"assertBeetSupported"}) /\ isPrimitive(call.ty)
        /\ call.ty.key \notin DOMAIN primaryTypeMap)
       => result.err = UnsupportedType

\* C10, first part: without a name, mapping an expression that holds an enum
\* throws MissingName and the registry is as it was.
EnumNeedsName ==
  (Returned(MappingOps) /\ HasEnum(call.ty) /\ call.name = NO_NAME_PROVIDED)
    => /\ result.err = MissingName
       /\ Post.scalarEnumsUsed = Pre.scalarEnumsUsed

OnNamedEnum ==
  /\ Returned(MappingOps)
  /\ isIdlTypeEnum(call.ty)
  /\ call.name # NO_NAME_PROVIDED

EnumRegistered ==
  /\ result.err = NoError
  /\ call.name \in DOMAIN Post.scalarEnumsUsed
  /\ Post.scalarEnumsUsed[call.name] = VariantNames(call.ty)
  /\ result.val = IF call.op = "map" THEN call.name
                  ELSE "beet.fixedScalarEnum(" \o call.name \o ")"

\* C10 as stated: without a name the call throws MissingName and registers
\* nothing; with any other name it registers the variants under the name and
\* returns the name (map) or the fixed-scalar-enum combinator over it
\* (mapSerde).
C10_NamedEnumRegisters ==
  /\ EnumNeedsName
  /\ OnNamedEnum => EnumRegistered

\* C10 amended: with another name the call registers and returns as stated
\* unless the name is registered with other variants; then it throws
\* ConflictingEnumDefinition and the registry is as it was.
C10_NamedEnumRegistersUnlessConflict ==
  /\ EnumNeedsName
  /\ OnNamedEnum =>
       IF call.name \in DOMAIN Pre.scalarEnumsUsed
            /\ Pre.scalarEnumsUsed[call.name] # VariantNames(call.ty)
         THEN /\ result.err = ConflictingEnumDefinition
              /\ Post.scalarEnumsUsed = Pre.scalarEnumsUsed
         ELSE EnumRegistered

\* An enum under Option mapped in serde mode without a name: MissingName, and
\* the registry, which holds an entry, is as it was.
C10_Witness ==
  /\ Returned({"mapSerde"})
  /\ call.ty = Option(Enum(RedGreen))
  /\ call.name = NO_NAME_PROVIDED
  /\ result.err = MissingName
  /\ DOMAIN Pre.scalarEnumsUsed = {"Color"}
  /\ Post.scalarEnumsUsed = Pre.scalarEnumsUsed

\* The failures of a mapping call that the error design names.
NamedFailures ==
  {UnsupportedType, UnknownType, MissingName, ConflictingEnumDefinition}

\* A map or mapSerde call that threw one of them.
OnFailure(op) == Returned({op}) /\ result.err \in NamedFailures

\* The force-fixable predicate fires on the expression or on one nested in it.
RECURSIVE FiresWithin(_)
FiresWithin(ty) ==
  \/ ApplyForceFixable(forceFixable, ty)
  \/ CASE isIdlTypeOption(ty) -> FiresWithin(ty.option)
       [] isIdlTypeVec(ty) -> FiresWithin(ty.vec)
       [] isIdlTypeArray(ty) -> FiresWithin(ty.array[1])
       [] OTHER -> FALSE

\* C11 as stated: a map or mapSerde call that fails with UnsupportedType,
\* UnknownType, MissingName or ConflictingEnumDefinition leaves the packages
\* used, the local imports, the fixable flag and the enum registry as they
\* were before the call.
C11_FailureKeepsUsages ==
  (Returned(MappingOps) /\ result.err \in NamedFailures) => Post = Pre

\* C11 amended: a failing map leaves all four as they were; a failing mapSerde
\* leaves the local imports and the enum registry as they were, adds the beet
\* package exactly when it fails with ConflictingEnumDefinition, and sets the
\* flag exactly when the force-fixable predicate fires on the expression or
\* on one nested in it.
C11_FailureKeepsUsagesButForcing ==
  /\ OnFailure("map") => Post = Pre
  /\ OnFailure("mapSerde") =>
       /\ Post.localImportsByPath = Pre.localImportsByPath
       /\ Post.scalarEnumsUsed = Pre.scalarEnumsUsed
       /\ Post.serdePackagesUsed
            = IF result.err = ConflictingEnumDefinition
                THEN SetAdd(Pre.serdePackagesUsed, BEET_PACKAGE)
                ELSE Pre.serdePackagesUsed
       /\ Post.usedFixableSerde
            = (Pre.usedFixableSerde \/ FiresWithin(call.ty))

\* An enum registered in type mode is mapped in serde mode with other
\* variants: the call throws, the registry is as it was and the beet package
\* has been added.
C11_Witness ==
  /\ OnFailure("mapSerde")
  /\ isIdlTypeEnum(call.ty)
  /\ result.err = ConflictingEnumDefinition
  /\ Pre.serdePackagesUsed = <<>>
  /\ Post.serdePackagesUsed = <<BEET_PACKAGE>>
  /\ Post.scalarEnumsUsed = Pre.scalarEnumsUsed
  /\ Post.usedFixableSerde = Pre.usedFixableSerde

====
